---- MODULE Spec2Model ----
(***************************************************************************)
(* Idea incubator backend: the idea-enrichment workflow.                   *)
(*                                                                         *)
(*   - GeminiAIService._generate_content_async: the bounded retry loop in  *)
(*     front of the AI provider (backend/app/services/ai_service.py)       *)
(*   - GeminiAIService.refine_idea / generate_feasibility_analysis /       *)
(*     generate_market_insights / generate_risk_assessment /               *)
(*     generate_implementation_roadmap and their fallbacks                 *)
(*   - the request handlers of backend/app/routers/ideas.py, each split at *)
(*     its await points, over the persisted tables ideas and idea_insights *)
(*   - registration and login (backend/app/routers/auth.py) over the table *)
(*     users                                                               *)
(*   - RateLimiter (backend/app/middleware/security.py)                    *)
(*                                                                         *)
(* Numbers with one decimal (the feasibility dimensions) are kept in       *)
(* tenths: 50 is 5.0.                                                      *)
(***************************************************************************)
EXTENDS Integers, Sequences, FiniteSets, TLC

VARIABLES
    users,        \* table users: the set of committed rows
    limiter,      \* a RateLimiter: max_requests, window_seconds, requests
    now,          \* time.time(), in seconds
    allowed,      \* history: per client, the times of the requests the limiter let through
    api_key,      \* configuration: GEMINI_API_KEY is set in the environment
    generated,    \* history: per idea id, the insight generations committed so far
    gen_script,   \* AI client: what the provider answers on call 1, 2, ...
    gen_result,   \* AI client: what _generate_content_async gave its caller
    ideas,        \* table ideas: id -> committed row
    insights,     \* table idea_insights: the set of committed rows
    idea_seq,     \* the key before the one the database hands out next for ideas
    insight_seq,  \* last primary key handed out for idea_insights
    req,          \* per client: the request in flight (handler locals, session objects)
    resp,         \* the response the last step sent, if it sent one
    gen_seq       \* history: number of insight generations started so far

vars == <<users, limiter, now, allowed, api_key, generated, gen_script, gen_result, ideas, idea_seq, insights, insight_seq, req, resp, gen_seq>>

(***************************************************************************)
(* Texts.  A text is kept as its length without surrounding whitespace     *)
(* (len), the number of whitespace characters around it (ws) and, for a    *)
(* text the scoring prompt asked for, what json.loads makes of it (json).  *)
(* bold says whether the stripped text starts with the two characters **.  *)
(***************************************************************************)
\* len(result) < 50 is "short" (ai_service.py:691, 765, 846)
MinInsightLen == 50

\* json.loads raises JSONDecodeError on the text
NotJson == [valid |-> FALSE]

TextLens == {0, MinInsightLen - 1, MinInsightLen}

\* bold: the text starts with '**' once stripped
ProviderTexts == [ws : {0, 1}, len : TextLens, json : {NotJson}, bold : {FALSE}]

\* str.strip()
Strip(t) == [t EXCEPT !.ws = 0]

\* Python truthiness of a str: non-empty
Truthy(t) == t.ws + t.len > 0

(***************************************************************************)
(* The provider: model.generate_content(prompt) raises, returns no         *)
(* response object, or returns a response with a text.                     *)
(***************************************************************************)
Raises == [kind |-> "raise"]

NoResponse == [kind |-> "none"]

Response(t) == [kind |-> "resp", text |-> t]

ProviderOutcomes == {Raises, NoResponse} \cup {Response(t) : t \in ProviderTexts}

(***************************************************************************)
(* GeminiAIService._generate_content_async (ai_service.py:472-495).        *)
(* script[k] is the provider's answer to the k-th call.  The result        *)
(* records what the caller gets (status, response), how many provider      *)
(* calls were made and the delays slept between them, in seconds.          *)
(***************************************************************************)
max_retries == 3

base_delay == 2

\* mutant: the same wait after every failure
BackoffDelay_Constant(attempt) == base_delay

\* delay = base_delay * (2 ** attempt) (ai_service.py:492)
BackoffDelay(attempt) == base_delay * (2 ^ attempt)

\* mutant: the text of the response is not looked at
IsValidResponse_AnyText(out) == out.kind = "resp"

\* `not response or not response.text` (ai_service.py:483)
IsValidResponse(out) == out.kind = "resp" /\ Truthy(out.text)

RECURSIVE GenerateAttempt_OneMore(_, _, _)
\* mutant: the loop runs max_retries + 1 times
GenerateAttempt_OneMore(script, attempt, delays) ==
    LET out == script[attempt + 1]
    IN IF out.kind = "resp" /\ Truthy(out.text)
       THEN [status |-> "ok", response |-> out,
             calls |-> attempt + 1, delays |-> delays]
       ELSE IF attempt = max_retries
            THEN [status |-> "raise", response |-> NoResponse,
                  calls |-> attempt + 1, delays |-> delays]
            ELSE GenerateAttempt_OneMore(script, attempt + 1,
                                         Append(delays, BackoffDelay(attempt)))

RECURSIVE GenerateAttempt_ReturnAfterLoop(_, _, _)
\* mutant: the response is returned once the loop is over, not from inside it
GenerateAttempt_ReturnAfterLoop(script, attempt, delays) ==
    LET out == script[attempt + 1]
    IN IF attempt = max_retries - 1
       THEN IF out.kind = "resp" /\ Truthy(out.text)
            THEN [status |-> "ok", response |-> out,
                  calls |-> attempt + 1, delays |-> delays]
            ELSE [status |-> "raise", response |-> NoResponse,
                  calls |-> attempt + 1, delays |-> delays]
       ELSE GenerateAttempt_ReturnAfterLoop(script, attempt + 1,
                IF out.kind = "resp" /\ Truthy(out.text)
                THEN delays ELSE Append(delays, BackoffDelay(attempt)))

RECURSIVE GenerateAttempt(_, _, _)
\* one pass of `for attempt in range(max_retries)`, attempt counted from 0
GenerateAttempt(script, attempt, delays) ==
    IF attempt >= max_retries
    THEN \* the loop ran out: the coroutine falls off its end and returns None
         [status |-> "ok", response |-> NoResponse,
          calls |-> attempt, delays |-> delays]
    ELSE LET out == script[attempt + 1]
         IN IF IsValidResponse(out)
            THEN [status |-> "ok", response |-> out,
                  calls |-> attempt + 1, delays |-> delays]
            ELSE IF attempt = max_retries - 1
                 THEN [status |-> "raise", response |-> NoResponse,
                       calls |-> attempt + 1, delays |-> delays]
                 ELSE GenerateAttempt(script, attempt + 1,
                                      Append(delays, BackoffDelay(attempt)))

generate_content_async(script) == GenerateAttempt(script, 0, <<>>)

(***************************************************************************)
(* Generated texts as the service hands them to the routers: where the     *)
(* text comes from (the provider, a fallback template of the service, or a *)
(* fallback template of the router), which artifact it is, and its length. *)
(***************************************************************************)
\* length of "**Enhanced Business Pitch**\n\n" (ai_service.py:93)
PitchHeaderLen == 29

\* the fallback templates are fixed non-empty texts; len 0 marks "not a
\* provider text", their length is never read
AiText(field, n) == [src |-> "ai", field |-> field, len |-> n]

ServiceFallback(field) == [src |-> "fallback_service", field |-> field, len |-> 0]

RouterFallback(field) == [src |-> "fallback_router", field |-> field, len |-> 0]

\* the empty string a local starts as (ideas.py:429-431)
EmptyText(field) == [src |-> "empty", field |-> field, len |-> 0]

\* Python truthiness of a generated text: the templates are non-empty
TruthyValue(v) == v.src \notin {"ai", "empty"} \/ v.len > 0

\* mutant: a failed refinement leaves the pitch empty
refine_idea_NoFallback(script) ==
    LET g == generate_content_async(script)
    IN [generates |-> 1,
        provider_failed |-> g.status = "raise",
        value |-> IF g.status = "ok" /\ g.response.kind = "resp"
                  THEN AiText("pitch", PitchHeaderLen + Strip(g.response.text).len)
                  ELSE [src |-> "null", field |-> "pitch", len |-> 0]]

\* GeminiAIService.refine_idea (ai_service.py:81-100)
refine_idea(script) ==
    LET g == generate_content_async(script)
    IN [generates |-> 1,
        provider_failed |-> g.status = "raise",
        value |-> IF g.status = "ok" /\ g.response.kind = "resp"
                  THEN LET refined == Strip(g.response.text)
                       IN IF ~refined.bold
                          THEN AiText("pitch", PitchHeaderLen + refined.len)
                          ELSE AiText("pitch", refined.len)
                  ELSE ServiceFallback("pitch")]

\* the try block shared by the three insight generators: generate, strip,
\* fall back on a short or empty result and on any exception.  generates is
\* the number of _generate_content_async calls made, raised whether an
\* exception leaves the method, provider_failed whether the AI client gave up
InsightOrFallback(field, script) ==
    LET g == generate_content_async(script)
    IN [generates |-> 1,
        raised |-> FALSE,
        provider_failed |-> g.status = "raise",
        value |-> IF g.status = "ok" /\ g.response.kind = "resp"
                  THEN LET result == Strip(g.response.text)
                       IN IF ~Truthy(result) \/ result.len < MinInsightLen
                          THEN ServiceFallback(field)
                          ELSE AiText(field, result.len)
                  ELSE ServiceFallback(field)]

\* GeminiAIService.generate_market_insights, the later definition
\* (ai_service.py:630-700); hasInput: title and description are non-empty
generate_market_insights(hasInput, script) ==
    IF ~hasInput
    THEN [generates |-> 0, raised |-> FALSE, provider_failed |-> FALSE, value |-> ServiceFallback("market")]
    ELSE InsightOrFallback("market", script)

\* GeminiAIService.generate_risk_assessment, the later definition
\* (ai_service.py:702-774); hasInput: idea_data has a non-empty title
generate_risk_assessment(hasInput, script) ==
    IF ~hasInput
    THEN [generates |-> 0, raised |-> FALSE, provider_failed |-> FALSE, value |-> ServiceFallback("risk")]
    ELSE InsightOrFallback("risk", script)

\* GeminiAIService.generate_implementation_roadmap, the later definition
\* (ai_service.py:776-855)
generate_implementation_roadmap(hasInput, script) ==
    IF ~hasInput
    THEN [generates |-> 0, raised |-> FALSE, provider_failed |-> FALSE, value |-> ServiceFallback("roadmap")]
    ELSE InsightOrFallback("roadmap", script)

(***************************************************************************)
(* Scoring Engine.  A JSON answer is kept as the object json.loads yields: *)
(* per requested field a number (in tenths), a value float() refuses, or   *)
(* no such key.                                                            *)
(***************************************************************************)
Num(v) == [t |-> "num", v |-> v]

NonNumeric == [t |-> "str"]

Missing == [t |-> "missing"]

Json(m, t, r) ==
    [valid |-> TRUE, market_potential |-> m,
     technical_complexity |-> t, resource_requirements |-> r]

Max(a, b) == IF a >= b THEN a ELSE b

Min(a, b) == IF a <= b THEN a ELSE b

\* mutant: the scores are returned as computed
Clamp_None(x) == x

\* mutant: only the upper end is enforced
Clamp_UpperOnly(x) == Min(100, x)

\* max(1.0, min(10.0, x)) (ai_service.py:168-170, 558-560)
Clamp(x) == Max(10, Min(100, x))

Stages == {"concept", "research", "prototype", "testing", "launch"}

\* stage_scores (ai_service.py:536-542)
stage_scores(stage) ==
    CASE stage = "concept" -> <<60, 55, 65>>
      [] stage = "research" -> <<70, 60, 70>>
      [] stage = "prototype" -> <<75, 45, 75>>
      [] stage = "testing" -> <<80, 35, 80>>
      [] stage = "launch" -> <<85, 25, 85>>
      [] OTHER -> <<60, 55, 65>>

\* GeminiAIService._fallback_scoring (ai_service.py:529-563).  kw_ai: title or
\* description contains 'ai', 'artificial intelligence', 'machine learning'
\* or 'automation'; kw_sw: one of 'mobile', 'app', 'platform', 'software'
fallback_scoring(idea_data) ==
    LET base == stage_scores(idea_data.development_stage)
        a == IF idea_data.kw_ai THEN <<10, 20, 15>> ELSE <<0, 0, 0>>
        b == IF idea_data.kw_sw THEN <<5, 10, 5>> ELSE <<0, 0, 0>>
    IN <<Clamp(base[1] + a[1] + b[1]),
         Clamp(base[2] + a[2] + b[2]),
         Clamp(base[3] + a[3] + b[3])>>

\* mutant: only json.JSONDecodeError is caught
generate_feasibility_analysis_NarrowExcept(idea_data, script) ==
    LET g == generate_content_async(script)
        analysis == IF g.status = "ok" /\ g.response.kind = "resp"
                    THEN Strip(g.response.text).json
                    ELSE NotJson
        parsed == /\ analysis.valid
                  /\ analysis.market_potential.t = "num"
                  /\ analysis.technical_complexity.t = "num"
                  /\ analysis.resource_requirements.t = "num"
    IN [generates |-> 1,
        provider_failed |-> g.status = "raise",
        raised |-> g.status = "raise" \/ (analysis.valid /\ ~parsed),
        source |-> IF parsed THEN "ai" ELSE "fallback",
        value |-> IF parsed
                  THEN <<Clamp(analysis.market_potential.v),
                         Clamp(analysis.technical_complexity.v),
                         Clamp(analysis.resource_requirements.v)>>
                  ELSE fallback_scoring(idea_data)]

\* GeminiAIService.generate_feasibility_analysis (ai_service.py:149-180);
\* raised: whether an exception leaves the method
generate_feasibility_analysis(idea_data, script) ==
    LET g == generate_content_async(script)
        analysis == IF g.status = "ok" /\ g.response.kind = "resp"
                    THEN Strip(g.response.text).json
                    ELSE NotJson
        parsed == /\ analysis.valid
                  /\ analysis.market_potential.t = "num"
                  /\ analysis.technical_complexity.t = "num"
                  /\ analysis.resource_requirements.t = "num"
    IN [generates |-> 1,
        provider_failed |-> g.status = "raise",
        raised |-> FALSE,
        source |-> IF parsed THEN "ai" ELSE "fallback",
        value |-> IF parsed
                  THEN <<Clamp(analysis.market_potential.v),
                         Clamp(analysis.technical_complexity.v),
                         Clamp(analysis.resource_requirements.v)>>
                  ELSE fallback_scoring(idea_data)]

(***************************************************************************)
(* The AI client on its own: the provider's answers are drawn at the       *)
(* start, one call of _generate_content_async is made.                     *)
(***************************************************************************)
\* answers scripted per run: one more than the client may ask for
MaxProviderCalls == 4

ProviderScripts == [1..MaxProviderCalls -> ProviderOutcomes]

NotRun == [status |-> "not_run"]

GenerateCall ==
    /\ gen_result = NotRun
    /\ gen_result' = generate_content_async(gen_script)
    /\ UNCHANGED <<users, limiter, now, allowed, api_key, generated, gen_script, ideas, idea_seq, insights, insight_seq, req, resp, gen_seq>>

(***************************************************************************)
(* The tables and the requests.                                            *)
(***************************************************************************)
MaxUsers == 2

MaxClients == 2

\* primary keys the ideas table hands out
MaxIdeas == 1

\* primary keys the idea_insights table hands out
MaxInsightRows == 2

\* insight generations started
MaxGenerations == 3

Users == 1..MaxUsers

Clients == 1..MaxClients

IdeaIds == 1..MaxIdeas

Idle == [pc |-> "idle"]

NoResp == [op |-> "none"]

\* a NULL numeric column, None in Python
NoValue == -1

\* ai_refined_pitch is NULL
NullPitch == [src |-> "null", field |-> "pitch", len |-> 0]

\* query(...).first() found nothing
NoRow == [id |-> 0]

InsightFields == {"market_insights", "risk_assessment", "implementation_roadmap"}

OwnedIdea(user, idea_id) ==
    idea_id \in DOMAIN ideas /\ ideas[idea_id].created_by = user

InsightRowsOf(idea_id) == {row \in insights : row.idea_id = idea_id}

\* query(IdeaInsight).filter(idea_id == ...).first(): no ORDER BY, any matching row
FirstInsight(idea_id) ==
    IF InsightRowsOf(idea_id) = {} THEN {NoRow} ELSE InsightRowsOf(idea_id)

\* the UPDATE a commit flushes for one loaded object: the columns whose
\* assigned value differs from the loaded one are written, the others keep
\* what the table holds
FlushUpdate(current, loaded, assigned) ==
    [f \in DOMAIN current |->
        IF f \in DOMAIN assigned /\ assigned[f] # loaded[f]
        THEN assigned[f] ELSE current[f]]

\* title: str = Field(..., min_length=1) (schemas/idea.py:14, 24) keeps every
\* stored title, and description (min_length=10), non-empty
TitleNonEmpty == TRUE

\* what the provider is made to answer inside a request
BlankText == [ws |-> 1, len |-> 0, json |-> NotJson, bold |-> FALSE]

ShortText == [ws |-> 0, len |-> MinInsightLen - 1, json |-> NotJson, bold |-> FALSE]

FullText == [ws |-> 1, len |-> MinInsightLen, json |-> NotJson, bold |-> FALSE]

BoldText == [ws |-> 0, len |-> MinInsightLen + PitchHeaderLen, json |-> NotJson, bold |-> TRUE]

\* the provider's answers to one insight prompt: a full text at once, a full
\* text on the last attempt, a short text, blanks after a failure, no answer
RequestScripts ==
    {<<Response(FullText), Raises, Raises>>,
     <<Raises, NoResponse, Response(FullText)>>,
     <<Response(ShortText), Raises, Raises>>,
     <<Raises, Response(BlankText), Raises>>,
     <<Raises, NoResponse, Raises>>}

\* and to the pitch prompt
PitchScripts ==
    {<<Response(FullText), Raises, Raises>>,
     <<Raises, Response(BoldText), Raises>>,
     <<Raises, NoResponse, Raises>>}

\* a text the provider produced for generation run g is content of its own
Stamp(value, g) == [src |-> value.src, field |-> value.field, len |-> value.len, run |-> g]

\* the fallback templates depend on the idea alone
Unstamped(value) == Stamp(value, 0)

StampIfAi(value, g) == IF value.src = "ai" THEN Stamp(value, g) ELSE Unstamped(value)

NotAvailable(field) == Unstamped([src |-> "not_available", field |-> field, len |-> 0])

\* InsightSummary(...) of a row (ideas.py:399-409, 500-510)
InsightSummary(row, cached) ==
    [market_insights |->
        IF cached /\ ~TruthyValue(row.market_insights)
        THEN NotAvailable("market") ELSE row.market_insights,
     risk_assessment |->
        IF cached /\ ~TruthyValue(row.risk_assessment)
        THEN NotAvailable("risk") ELSE row.risk_assessment,
     implementation_roadmap |->
        IF cached /\ ~TruthyValue(row.implementation_roadmap)
        THEN NotAvailable("roadmap") ELSE row.implementation_roadmap,
     is_ai_generated |-> row.is_ai_generated,
     generation_version |-> row.generation_version]

(***************************************************************************)
(* get_idea_insights (ideas.py:372-521), split at its three awaits.        *)
(* Each response records, besides status and body, what the request found  *)
(* when it started (had_record), how many times it called the AI client    *)
(* (ai_calls) and on which generations the provider failed (outcomes).     *)
(***************************************************************************)
Respond(r) == resp' = r

\* a step that sends no response
Silent == resp' = NoResp

\* rows the requests in flight are about to insert
PendingInserts ==
    Cardinality({c \in Clients : req[c].pc \in {"market", "risk", "roadmap"}
                                 /\ req[c].existing_insights = NoRow})

\* `from ..services.ai_service import ai_service` inside a handler
\* (ideas.py:45, 325, 412): the module builds GeminiAIService() when it is
\* first imported (ai_service.py:1048), and __init__ raises ValueError
\* without GEMINI_API_KEY (ai_service.py:13-16)
ServiceImported == api_key

\* mutant: the stored record is served to the wrong kind of request
CacheHit_Inverted(existing, force_regenerate) ==
    existing # NoRow /\ force_regenerate

\* `if existing_insights and not force_regenerate` (ideas.py:397)
CacheHit(existing, force_regenerate) ==
    existing # NoRow /\ ~force_regenerate

\* up to the first await: the two queries, the cache hit, the locals
InsightsBegin(c, user, idea_id, force_regenerate) ==
    /\ req[c].pc = "idle"
    /\ IF ~OwnedIdea(user, idea_id)
       THEN /\ Respond([op |-> "insights", status |-> 404, idea_id |-> idea_id,
                           user |-> user, force |-> force_regenerate])
            /\ UNCHANGED <<req, gen_seq>>
       ELSE \E existing \in FirstInsight(idea_id) :
              IF CacheHit(existing, force_regenerate)
              THEN /\ Respond([op |-> "insights", status |-> 200, idea_id |-> idea_id,
                                  user |-> user, force |-> force_regenerate, cached |-> TRUE,
                                  had_record |-> TRUE, ai_calls |-> 0, row_id |-> existing.id,
                                  body |-> InsightSummary(existing, TRUE)])
                   /\ UNCHANGED <<req, gen_seq>>
              ELSE IF ~ServiceImported
              THEN \* outer except: rollback, 500
                   /\ Respond([op |-> "insights", status |-> 500, idea_id |-> idea_id,
                                  cached |-> FALSE, had_record |-> existing # NoRow,
                                  ai_calls |-> 0, cause |-> "no_credential"])
                   /\ UNCHANGED <<req, gen_seq>>
              ELSE /\ gen_seq < MaxGenerations
                   /\ existing = NoRow => insight_seq + PendingInserts < MaxInsightRows
                   /\ gen_seq' = gen_seq + 1
                   /\ req' = [req EXCEPT ![c] =
                        [pc |-> "market", op |-> "insights", idea_id |-> idea_id,
                         user |-> user, force |-> force_regenerate,
                         existing_insights |-> existing,
                         is_ai_generated |-> TRUE,
                         market_insights |-> Unstamped(EmptyText("market")),
                         risk_assessment |-> Unstamped(EmptyText("risk")),
                         implementation_roadmap |-> Unstamped(EmptyText("roadmap")),
                         ai_calls |-> 0, run |-> gen_seq + 1, outcomes |-> {}]]
                   /\ Silent
    /\ UNCHANGED <<users, limiter, now, allowed, api_key, generated, gen_script, gen_result, ideas, idea_seq, insights, insight_seq>>

\* the try/except around one generation (ideas.py:434-465)
Generated(rq, res, field) ==
    IF res.raised THEN Unstamped(RouterFallback(field)) ELSE StampIfAi(res.value, rq.run)

\* history: the generations of this run on which the provider failed
Failed(res, field) == IF res.provider_failed THEN {field} ELSE {}

\* await generate_market_insights returns; on to the risk assessment
InsightsMarket(c, script) ==
    /\ req[c].pc = "market"
    /\ LET res == generate_market_insights(TitleNonEmpty, script)
       IN req' = [req EXCEPT ![c].pc = "risk",
                             ![c].market_insights = Generated(req[c], res, "market"),
                             ![c].outcomes = @ \cup Failed(res, "market"),
                             ![c].is_ai_generated = IF res.raised THEN FALSE ELSE @,
                             ![c].ai_calls = @ + res.generates]
    /\ Silent
    /\ UNCHANGED <<users, limiter, now, allowed, api_key, generated, gen_script, gen_result, ideas, idea_seq, insights, insight_seq, gen_seq>>

\* await generate_risk_assessment returns; on to the roadmap
InsightsRisk(c, script) ==
    /\ req[c].pc = "risk"
    /\ LET res == generate_risk_assessment(TitleNonEmpty, script)
       IN req' = [req EXCEPT ![c].pc = "roadmap",
                             ![c].risk_assessment = Generated(req[c], res, "risk"),
                             ![c].outcomes = @ \cup Failed(res, "risk"),
                             ![c].is_ai_generated = IF res.raised THEN FALSE ELSE @,
                             ![c].ai_calls = @ + res.generates]
    /\ Silent
    /\ UNCHANGED <<users, limiter, now, allowed, api_key, generated, gen_script, gen_result, ideas, idea_seq, insights, insight_seq, gen_seq>>

\* the values this run assigns to the row object (ideas.py:470-474, 481-488)
AssignedInsights(rq) ==
    [market_insights |-> rq.market_insights,
     risk_assessment |-> rq.risk_assessment,
     implementation_roadmap |-> rq.implementation_roadmap,
     is_ai_generated |-> rq.is_ai_generated]

\* history: a column belongs to run rq.run once it holds that run's value
WrittenBy(row, before, rq) ==
    [f \in InsightFields |->
        IF row[f] = AssignedInsights(rq)[f] THEN rq.run ELSE before[f]]

\* mutant: the version is kept and the roadmap is left for a later commit
UpdatedInsight_Partial(current, rq) ==
    LET loaded == rq.existing_insights
        assigned == AssignedInsights(rq)
        flushed == FlushUpdate(current, loaded,
                       [f \in {"market_insights", "risk_assessment", "is_ai_generated"}
                           |-> assigned[f]])
    IN [flushed EXCEPT !.written_by = WrittenBy(flushed, current.written_by, rq)]

\* the row after the UPDATE of an existing record commits (ideas.py:468-475, 495)
UpdatedInsight(current, rq) ==
    LET loaded == rq.existing_insights
        flushed == FlushUpdate(current, loaded,
                       AssignedInsights(rq) @@
                       [generation_version |-> loaded.generation_version + 1])
    IN [flushed EXCEPT !.written_by = WrittenBy(flushed, current.written_by, rq)]

\* the row the INSERT of a first record commits (ideas.py:481-490, 495);
\* made_for is history: the user whose request had the record generated
InsertedInsight(rq) ==
    AssignedInsights(rq) @@
    [id |-> insight_seq + 1, idea_id |-> rq.idea_id, generation_version |-> 1,
     written_by |-> [f \in InsightFields |-> rq.run],
     made_for |-> rq.user]

\* mutant: a run in which the provider failed is answered with an error
InsightsDone_ErrorOnFallback(rq, row) ==
    IF rq.outcomes # {}
    THEN Respond([op |-> "insights", status |-> 500, idea_id |-> rq.idea_id,
                     cached |-> FALSE, had_record |-> rq.existing_insights # NoRow,
                     ai_calls |-> rq.ai_calls, run |-> rq.run,
                     outcomes |-> rq.outcomes, persisted |-> TRUE,
                     assigned |-> AssignedInsights(rq)])
    ELSE Respond([op |-> "insights", status |-> 200, idea_id |-> rq.idea_id,
                     user |-> rq.user,
                     cached |-> FALSE, had_record |-> rq.existing_insights # NoRow,
                     ai_calls |-> rq.ai_calls, row_id |-> row.id, run |-> rq.run,
                     outcomes |-> rq.outcomes, persisted |-> TRUE,
                     assigned |-> AssignedInsights(rq),
                     body |-> InsightSummary(row, FALSE)])

\* the commit went through: refresh, 200 (ideas.py:495-510); persisted is
\* history: whether the persistence step of the run succeeded
InsightsDone(rq, row) ==
    Respond([op |-> "insights", status |-> 200, idea_id |-> rq.idea_id,
                user |-> rq.user,
                cached |-> FALSE, had_record |-> rq.existing_insights # NoRow,
                ai_calls |-> rq.ai_calls, row_id |-> row.id, run |-> rq.run,
                outcomes |-> rq.outcomes, persisted |-> TRUE,
                assigned |-> AssignedInsights(rq),
                body |-> InsightSummary(row, FALSE)])

\* the outer except: 500 (ideas.py:512-521)
InsightsFailed(rq) ==
    Respond([op |-> "insights", status |-> 500, idea_id |-> rq.idea_id,
                cached |-> FALSE, had_record |-> rq.existing_insights # NoRow,
                ai_calls |-> rq.ai_calls, run |-> rq.run,
                outcomes |-> rq.outcomes, persisted |-> FALSE,
                assigned |-> AssignedInsights(rq)])

\* mutant: what the failed commit had flushed stays in the table
RolledBack_FlushKept(rq) ==
    /\ insights' = insights \cup {InsertedInsight(rq)}
    /\ insight_seq' = insight_seq + 1
    /\ UNCHANGED generated

\* db.rollback() (ideas.py:513): nothing of the run is stored
RolledBack(rq) == UNCHANGED <<insights, insight_seq, generated>>

\* mutant: a record found at the start is not updated, a new one is added
IsUpdate_Never(rq) == FALSE

\* `if existing_insights:` (ideas.py:468)
IsUpdate(rq) == rq.existing_insights # NoRow

\* save or update, commit, refresh, respond (ideas.py:467-521)
persist_insights(rq, commit_ok) ==
    IF IsUpdate(rq)
    THEN LET stored == {row \in insights : row.id = rq.existing_insights.id}
         IN IF commit_ok /\ stored # {}
            THEN LET current == CHOOSE row \in stored : TRUE
                     row == UpdatedInsight(current, rq)
                 IN /\ insights' = (insights \ {current}) \cup {row}
                    /\ generated' = [generated EXCEPT ![rq.idea_id] = @ + 1]
                    /\ InsightsDone(rq, row)
                    /\ UNCHANGED insight_seq
            ELSE \* the commit fails, or the UPDATE matches no row: rollback, 500
                 /\ InsightsFailed(rq)
                 /\ RolledBack(rq)
    ELSE IF commit_ok
         THEN LET row == InsertedInsight(rq)
              IN /\ insights' = insights \cup {row}
                 /\ insight_seq' = insight_seq + 1
                 /\ generated' = [generated EXCEPT ![rq.idea_id] = @ + 1]
                 /\ InsightsDone(rq, row)
         ELSE /\ InsightsFailed(rq)
              /\ RolledBack(rq)

\* await generate_implementation_roadmap returns; persist and respond
InsightsRoadmap(c, script, commit_ok) ==
    /\ req[c].pc = "roadmap"
    /\ LET res == generate_implementation_roadmap(TitleNonEmpty, script)
           rq == [req[c] EXCEPT
                    !.implementation_roadmap = Generated(req[c], res, "roadmap"),
                    !.outcomes = @ \cup Failed(res, "roadmap"),
                    !.is_ai_generated = IF res.raised THEN FALSE ELSE @,
                    !.ai_calls = @ + res.generates]
       IN persist_insights(rq, commit_ok)
    /\ req' = [req EXCEPT ![c] = Idle]
    /\ UNCHANGED <<users, limiter, now, allowed, api_key, gen_script, gen_result, ideas, idea_seq, gen_seq>>

(***************************************************************************)
(* create_idea (ideas.py:17-93) and enhance_idea_with_ai (ideas.py:305-367)*)
(* split at their two awaits.                                              *)
(***************************************************************************)
PlainText == [kw_ai |-> FALSE, kw_sw |-> FALSE]

\* the IdeaCreate body tried: a prototype whose description names a keyword
\* of the first family
CreateBodies ==
    {[title |-> PlainText, description |-> [kw_ai |-> TRUE, kw_sw |-> FALSE],
      development_stage |-> "prototype"]}

\* what the provider answers to the scoring prompt inside a request
ScoreText == [ws |-> 0, len |-> MinInsightLen, bold |-> FALSE,
              json |-> Json(Num(73), Num(120), Num(5))]

ScoreScripts ==
    {<<Raises, Response(ScoreText), Raises>>,
     <<Response(FullText), Raises, Raises>>,
     <<Raises, Raises, NoResponse>>}

\* idea_data of the scoring call (ideas.py:59-64, 338-343)
IdeaData(db_idea) ==
    [development_stage |-> db_idea.development_stage,
     kw_ai |-> db_idea.title.kw_ai \/ db_idea.description.kw_ai,
     kw_sw |-> db_idea.title.kw_sw \/ db_idea.description.kw_sw]

\* Idea(...) as create_idea builds it (ideas.py:26-35)
NewIdea(user, body) ==
    [created_by |-> user, title |-> body.title, description |-> body.description,
     development_stage |-> body.development_stage,
     ai_refined_pitch |-> NullPitch,
     market_potential |-> 50, technical_complexity |-> 50,
     resource_requirements |-> 50, ai_validated |-> FALSE]

\* the columns an enhancement assigns (ideas.py:55, 67-73, 335, 346-352)
AssignedEnhancement(refined_pitch, scores) ==
    [ai_refined_pitch |-> refined_pitch,
     market_potential |-> scores[1],
     technical_complexity |-> scores[2],
     resource_requirements |-> scores[3],
     ai_validated |-> TRUE]

\* create_idea up to the first await: insert, first commit
CreateBegin(c, user, body, commit_ok) ==
    /\ req[c].pc = "idle"
    /\ idea_seq < MaxIdeas
    /\ IF commit_ok
       THEN /\ ideas' = ideas @@ ((idea_seq + 1) :> NewIdea(user, body))
            /\ idea_seq' = idea_seq + 1
            /\ IF ServiceImported
               THEN /\ req' = [req EXCEPT ![c] =
                         [pc |-> "create_refine", op |-> "create",
                          idea_id |-> idea_seq + 1, db_idea |-> NewIdea(user, body),
                          refined_pitch |-> NullPitch, outcomes |-> {}]]
                    /\ Silent
               ELSE \* inner except: logged, the basic idea is returned
                    /\ Respond([op |-> "create", status |-> 201,
                                   idea_id |-> idea_seq + 1, committed |-> TRUE,
                                   cause |-> "no_credential",
                                   body |-> NewIdea(user, body)])
                    /\ UNCHANGED req
       ELSE \* outer except: rollback, 500
            /\ Respond([op |-> "create", status |-> 500, user |-> user])
            /\ UNCHANGED <<ideas, idea_seq, req>>
    /\ UNCHANGED <<users, limiter, now, allowed, api_key, generated, gen_script, gen_result, insights, insight_seq, gen_seq>>

\* await refine_idea returns (ideas.py:50-55)
CreateRefine(c, script) ==
    /\ req[c].pc = "create_refine"
    /\ LET res == refine_idea(script)
       IN req' = [req EXCEPT ![c].pc = "create_score",
                             ![c].refined_pitch = res.value,
                             ![c].outcomes = IF res.provider_failed THEN {"pitch"} ELSE {}]
    /\ Silent
    /\ UNCHANGED <<users, limiter, now, allowed, api_key, generated, gen_script, gen_result, ideas, idea_seq, insights, insight_seq, gen_seq>>

\* mutant: the pitch is committed on its own, the scores are left out
EnhancedRow_PitchOnly(rq, scores) ==
    FlushUpdate(ideas[rq.idea_id], rq.db_idea,
                [ai_refined_pitch |-> rq.refined_pitch])

\* the second commit of one enhancement: the row as the table then holds it
EnhancedRow(rq, scores) ==
    FlushUpdate(ideas[rq.idea_id], rq.db_idea,
                AssignedEnhancement(rq.refined_pitch, scores))

\* the object as the session holds it when the commit did not go through
UnsavedIdea(rq, scores) ==
    AssignedEnhancement(rq.refined_pitch, scores) @@ rq.db_idea

\* await generate_feasibility_analysis returns; second commit; respond
\* (ideas.py:66-85)
CreateScore(c, script, commit_ok) ==
    /\ req[c].pc = "create_score"
    /\ LET rq == req[c]
           res == generate_feasibility_analysis(IdeaData(rq.db_idea), script)
           scores == res.value
           outcomes == rq.outcomes \cup (IF res.provider_failed THEN {"score"} ELSE {})
       IN IF commit_ok /\ rq.idea_id \in DOMAIN ideas
          THEN /\ ideas' = [ideas EXCEPT ![rq.idea_id] = EnhancedRow(rq, scores)]
               /\ Respond([op |-> "create", status |-> 201,
                              idea_id |-> rq.idea_id, committed |-> TRUE,
                              outcomes |-> outcomes,
                              assigned |-> AssignedEnhancement(rq.refined_pitch, scores),
                              body |-> EnhancedRow(rq, scores)])
          ELSE \* inner except: logged, the idea object is returned.  A commit
               \* that fails in its flush rolls the session back and expires
               \* the object, which is then read again from the table; one
               \* that fails at COMMIT leaves the object as assigned
               /\ \E expired \in BOOLEAN :
                     Respond([op |-> "create", status |-> 201,
                              idea_id |-> rq.idea_id, committed |-> FALSE,
                              outcomes |-> outcomes,
                              assigned |-> AssignedEnhancement(rq.refined_pitch, scores),
                              body |-> IF expired /\ rq.idea_id \in DOMAIN ideas
                                       THEN ideas[rq.idea_id]
                                       ELSE UnsavedIdea(rq, scores)])
               /\ UNCHANGED ideas
    /\ req' = [req EXCEPT ![c] = Idle]
    /\ UNCHANGED <<users, limiter, now, allowed, api_key, generated, gen_script, gen_result, idea_seq, insights, insight_seq, gen_seq>>

\* enhance_idea_with_ai up to the first await: the ownership query
EnhanceBegin(c, user, idea_id) ==
    /\ req[c].pc = "idle"
    /\ IF ~OwnedIdea(user, idea_id)
       THEN /\ Respond([op |-> "enhance", status |-> 404, user |-> user,
                           idea_id |-> idea_id])
            /\ UNCHANGED req
       ELSE IF ~ServiceImported
       THEN \* except: 500
            /\ Respond([op |-> "enhance", status |-> 500, idea_id |-> idea_id,
                           was_validated |-> ideas[idea_id].ai_validated,
                           cause |-> "no_credential"])
            /\ UNCHANGED req
       ELSE /\ req' = [req EXCEPT ![c] =
                 [pc |-> "enhance_refine", op |-> "enhance",
                  idea_id |-> idea_id, db_idea |-> ideas[idea_id],
                  refined_pitch |-> NullPitch, outcomes |-> {}]]
            /\ Silent
    /\ UNCHANGED <<users, limiter, now, allowed, api_key, generated, gen_script, gen_result, ideas, idea_seq, insights, insight_seq, gen_seq>>

\* await refine_idea returns (ideas.py:330-335)
EnhanceRefine(c, script) ==
    /\ req[c].pc = "enhance_refine"
    /\ LET res == refine_idea(script)
       IN req' = [req EXCEPT ![c].pc = "enhance_score",
                             ![c].refined_pitch = res.value,
                             ![c].outcomes = IF res.provider_failed THEN {"pitch"} ELSE {}]
    /\ Silent
    /\ UNCHANGED <<users, limiter, now, allowed, api_key, generated, gen_script, gen_result, ideas, idea_seq, insights, insight_seq, gen_seq>>

\* await generate_feasibility_analysis returns; commit; respond (ideas.py:345-367)
EnhanceScore(c, script, commit_ok) ==
    /\ req[c].pc = "enhance_score"
    /\ LET rq == req[c]
           res == generate_feasibility_analysis(IdeaData(rq.db_idea), script)
           scores == res.value
           outcomes == rq.outcomes \cup (IF res.provider_failed THEN {"score"} ELSE {})
       IN IF commit_ok /\ rq.idea_id \in DOMAIN ideas
          THEN /\ ideas' = [ideas EXCEPT ![rq.idea_id] = EnhancedRow(rq, scores)]
               /\ Respond([op |-> "enhance", status |-> 200,
                              idea_id |-> rq.idea_id,
                              was_validated |-> rq.db_idea.ai_validated,
                              outcomes |-> outcomes, commit_ok |-> commit_ok,
                              assigned |-> AssignedEnhancement(rq.refined_pitch, scores),
                              body |-> EnhancedRow(rq, scores)])
          ELSE /\ Respond([op |-> "enhance", status |-> 500,
                              idea_id |-> rq.idea_id,
                              was_validated |-> rq.db_idea.ai_validated,
                              outcomes |-> outcomes, commit_ok |-> commit_ok,
                              assigned |-> AssignedEnhancement(rq.refined_pitch, scores)])
               /\ UNCHANGED ideas
    /\ req' = [req EXCEPT ![c] = Idle]
    /\ UNCHANGED <<users, limiter, now, allowed, api_key, generated, gen_script, gen_result, idea_seq, insights, insight_seq, gen_seq>>

(***************************************************************************)
(* update_idea (ideas.py:195-224), delete_idea_insights (ideas.py:523-554) *)
(* and get_insights_history (ideas.py:556-592): no await, one step each.   *)
(***************************************************************************)
\* mutant: the update schema declares the validation flag as well
IdeaUpdateFields_WithFlag ==
    {"title", "description", "development_stage",
     "market_potential", "technical_complexity", "resource_requirements",
     "ai_validated"}

\* the fields of IdeaUpdate (schemas/idea.py:22-29)
IdeaUpdateFields ==
    {"title", "description", "development_stage",
     "market_potential", "technical_complexity", "resource_requirements"}

ScoreFields == {"market_potential", "technical_complexity", "resource_requirements"}

\* request bodies tried: an out-of-range score, an in-range score in a body
\* that also carries a field IdeaUpdate does not declare, and a score set to
\* null
UpdateBodies ==
    {[technical_complexity |-> 101],
     [resource_requirements |-> 10, ai_validated |-> FALSE],
     [market_potential |-> NoValue]}

\* Optional[float] = Field(None, ge=1.0, le=10.0): null passes, a number is
\* held to the range; and the DevelopmentStage enum
ValidUpdate(body) ==
    /\ \A f \in DOMAIN body \cap ScoreFields :
          body[f] = NoValue \/ (body[f] >= 10 /\ body[f] <= 100)
    /\ "development_stage" \in DOMAIN body => body.development_stage \in Stages

\* idea_update.dict(exclude_unset=True): the declared fields the body sets
update_data(body) == [f \in DOMAIN body \cap IdeaUpdateFields |-> body[f]]

update_idea(c, user, idea_id, body, commit_ok) ==
    /\ req[c].pc = "idle"
    /\ IF ~ValidUpdate(body)
       THEN /\ Respond([op |-> "update", status |-> 422, user |-> user, idea_id |-> idea_id])
            /\ UNCHANGED ideas
       ELSE IF idea_id \notin DOMAIN ideas
       THEN /\ Respond([op |-> "update", status |-> 404, user |-> user, idea_id |-> idea_id])
            /\ UNCHANGED ideas
       ELSE IF ideas[idea_id].created_by # user
       THEN /\ Respond([op |-> "update", status |-> 403, user |-> user, idea_id |-> idea_id])
            /\ UNCHANGED ideas
       ELSE IF ~commit_ok
       THEN /\ Respond([op |-> "update", status |-> 500, user |-> user, idea_id |-> idea_id])
            /\ UNCHANGED ideas
       ELSE LET row == FlushUpdate(ideas[idea_id], ideas[idea_id], update_data(body))
            IN /\ ideas' = [ideas EXCEPT ![idea_id] = row]
               /\ Respond([op |-> "update", status |-> 200, user |-> user,
                              idea_id |-> idea_id, body |-> row])
    /\ UNCHANGED <<users, limiter, now, allowed, api_key, generated, gen_script, gen_result, idea_seq, insights, insight_seq, req, gen_seq>>

\* the largest key of a table, 0 for an empty one
LargestKey(keys) == IF keys = {} THEN 0 ELSE CHOOSE k \in keys : \A j \in keys : j <= k

\* get_idea (ideas.py:174-192)
get_idea(c, user, idea_id) ==
    /\ req[c].pc = "idle"
    /\ IF ~OwnedIdea(user, idea_id)
       THEN Respond([op |-> "get", status |-> 404, user |-> user, idea_id |-> idea_id])
       ELSE Respond([op |-> "get", status |-> 200, user |-> user, idea_id |-> idea_id,
                     body |-> ideas[idea_id]])
    /\ UNCHANGED <<users, limiter, now, allowed, api_key, generated, gen_script, gen_result,
                   ideas, idea_seq, insights, insight_seq, req, gen_seq>>

\* list_ideas (ideas.py:99-171) without filter, on a page that holds every
\* match: the ids of the rows the query returns
list_ideas(c, user) ==
    /\ req[c].pc = "idle"
    /\ Respond([op |-> "list", status |-> 200, user |-> user,
                items |-> {i \in DOMAIN ideas : ideas[i].created_by = user}])
    /\ UNCHANGED <<users, limiter, now, allowed, api_key, generated, gen_script, gen_result,
                   ideas, idea_seq, insights, insight_seq, req, gen_seq>>

\* delete_idea (ideas.py:226-249).  The key of ideas is INTEGER PRIMARY KEY:
\* on SQLite the next key is one more than the largest in the table, so the
\* key of a deleted last row is handed out again; a PostgreSQL sequence does
\* not go back.  Neither the mappers nor the schema cascade
\* from ideas to idea_insights (models/insight.py:10, migration line 75), so
\* the DELETE leaves the referencing rows to the database: with foreign keys
\* enforced (PostgreSQL) the commit fails while a row references the idea,
\* without (SQLite as database.py:14-21 opens it) the row stays behind
delete_idea(c, user, idea_id, fk_enforced, commit_ok) ==
    /\ req[c].pc = "idle"
    /\ IF idea_id \notin DOMAIN ideas
       THEN /\ Respond([op |-> "delete", status |-> 404, user |-> user, idea_id |-> idea_id])
            /\ UNCHANGED <<ideas, idea_seq>>
       ELSE IF ideas[idea_id].created_by # user
       THEN /\ Respond([op |-> "delete", status |-> 403, user |-> user, idea_id |-> idea_id])
            /\ UNCHANGED <<ideas, idea_seq>>
       ELSE IF ~commit_ok \/ (fk_enforced /\ InsightRowsOf(idea_id) # {})
       THEN /\ Respond([op |-> "delete", status |-> 500, user |-> user, idea_id |-> idea_id])
            /\ UNCHANGED <<ideas, idea_seq>>
       ELSE /\ ideas' = IF DOMAIN ideas = {idea_id}
                        THEN <<>>
                        ELSE [i \in DOMAIN ideas \ {idea_id} |-> ideas[i]]
            /\ idea_seq' = IF fk_enforced THEN idea_seq
                            ELSE LargestKey(DOMAIN ideas \ {idea_id})
            /\ Respond([op |-> "delete", status |-> 200, user |-> user,
                           idea_id |-> idea_id,
                           had_insights |-> InsightRowsOf(idea_id) # {}])
    /\ UNCHANGED <<users, limiter, now, allowed, api_key, generated, gen_script, gen_result, insights,
                   insight_seq, req, gen_seq>>

\* mutant: success is answered and the record stays
DeletedInsights_Kept(row) == insights

\* db.delete(insights); db.commit() (ideas.py:545-546)
DeletedInsights(row) == insights \ {row}

delete_idea_insights(c, user, idea_id, commit_ok) ==
    /\ req[c].pc = "idle"
    /\ IF ~OwnedIdea(user, idea_id)
       THEN /\ Respond([op |-> "delete_insights", status |-> 404, user |-> user,
                           idea_id |-> idea_id, detail |-> "Idea not found"])
            /\ UNCHANGED insights
       ELSE \E row \in FirstInsight(idea_id) :
              IF row = NoRow
              THEN /\ Respond([op |-> "delete_insights", status |-> 404, user |-> user,
                                  idea_id |-> idea_id, detail |-> "No insights found"])
                   /\ UNCHANGED insights
              ELSE IF ~commit_ok
              THEN /\ Respond([op |-> "delete_insights", status |-> 500, user |-> user,
                                  idea_id |-> idea_id, detail |-> "commit failed"])
                   /\ UNCHANGED insights
              ELSE /\ insights' = DeletedInsights(row)
                   /\ Respond([op |-> "delete_insights", status |-> 200, user |-> user,
                                  idea_id |-> idea_id, detail |-> "deleted"])
    /\ UNCHANGED <<users, limiter, now, allowed, api_key, generated, gen_script, gen_result, ideas, idea_seq, insight_seq, req, gen_seq>>

get_insights_history(c, user, idea_id) ==
    /\ req[c].pc = "idle"
    /\ IF ~OwnedIdea(user, idea_id)
       THEN Respond([op |-> "history", status |-> 404, user |-> user, idea_id |-> idea_id])
       ELSE \E row \in FirstInsight(idea_id) :
              IF row = NoRow
              THEN Respond([op |-> "history", status |-> 200, user |-> user,
                               idea_id |-> idea_id, has_insights |-> FALSE,
                               insights_count |-> 0])
              ELSE Respond([op |-> "history", status |-> 200, user |-> user,
                               idea_id |-> idea_id, has_insights |-> TRUE,
                               insights_count |-> 1,
                               current_version |-> row.generation_version,
                               is_ai_generated |-> row.is_ai_generated])
    /\ UNCHANGED <<users, limiter, now, allowed, api_key, generated, gen_script, gen_result, ideas, idea_seq, insights, insight_seq, req, gen_seq>>

(***************************************************************************)
(* RateLimiter and rate_limit_middleware (middleware/security.py).  Time   *)
(* is in whole seconds and does not go back.                               *)
(***************************************************************************)
MaxRate == 2

MaxWindow == 2

MaxTime == 3

\* the addresses get_client_ip makes out
ClientIps == {"10.0.0.1", "10.0.0.2"}

\* RateLimiter.__init__ (security.py:18-21); requests is a defaultdict(deque)
RateLimiter(max_requests, window_seconds) ==
    [max_requests |-> max_requests, window_seconds |-> window_seconds,
     requests |-> [client_ip \in ClientIps |-> <<>>]]

RECURSIVE RemoveOld(_, _)
\* while client_requests and client_requests[0] < cutoff: popleft()
RemoveOld(client_requests, cutoff) ==
    IF client_requests # <<>> /\ Head(client_requests) < cutoff
    THEN RemoveOld(Tail(client_requests), cutoff)
    ELSE client_requests

\* mutant: the limit is tested after the request is counted
is_allowed_OffByOne(self, client_ip, t) ==
    LET client_requests == RemoveOld(self.requests[client_ip], t - self.window_seconds)
    IN IF Len(client_requests) <= self.max_requests
       THEN [result |-> TRUE,
             self |-> [self EXCEPT !.requests[client_ip] = Append(client_requests, t)]]
       ELSE [result |-> FALSE,
             self |-> [self EXCEPT !.requests[client_ip] = client_requests]]

\* RateLimiter.is_allowed (security.py:23-37) at time t: what it returns and
\* the limiter it leaves
is_allowed(self, client_ip, t) ==
    LET client_requests == RemoveOld(self.requests[client_ip], t - self.window_seconds)
    IN IF Len(client_requests) < self.max_requests
       THEN [result |-> TRUE,
             self |-> [self EXCEPT !.requests[client_ip] = Append(client_requests, t)]]
       ELSE [result |-> FALSE,
             self |-> [self EXCEPT !.requests[client_ip] = client_requests]]

\* RateLimiter.get_reset_time (security.py:39-44)
get_reset_time(self, client_ip, t) ==
    IF self.requests[client_ip] # <<>>
    THEN Head(self.requests[client_ip]) + self.window_seconds
    ELSE t

\* rate_limit_middleware (security.py:69-116) on a path the limiter guards:
\* 429 when the limiter refuses, the request is passed on otherwise
rate_limit_middleware(client_ip) ==
    LET r == is_allowed(limiter, client_ip, now)
    IN /\ limiter' = r.self
       /\ IF r.result
          THEN /\ allowed' = [allowed EXCEPT ![client_ip] = Append(@, now)]
               /\ Respond([op |-> "rate_limit", status |-> 200, client_ip |-> client_ip,
                           at |-> now,
                           remaining |-> Max(0, r.self.max_requests
                                                - Len(r.self.requests[client_ip]))])
          ELSE /\ UNCHANGED allowed
               /\ Respond([op |-> "rate_limit", status |-> 429, client_ip |-> client_ip,
                           at |-> now,
                           retry_after |-> get_reset_time(r.self, client_ip, now) - now])
       /\ UNCHANGED <<users, now, api_key, generated, gen_script, gen_result, ideas,
                      idea_seq, insights, insight_seq, req, gen_seq>>

\* a second passes
Tick ==
    /\ now < MaxTime
    /\ now' = now + 1
    /\ Silent
    /\ UNCHANGED <<users, limiter, allowed, api_key, generated, gen_script, gen_result,
                   ideas, idea_seq, insights, insight_seq, req, gen_seq>>

(***************************************************************************)
(* Idea.feasibility_score (models/idea.py:47-58), in hundredths.           *)
(***************************************************************************)
\* Python truthiness of a dimension: neither None nor zero
TruthyDim(v) == v # NoValue /\ v # 0

\* round(n / d, 0) for n >= 0, d > 0: to the nearest integer, a tie to the even one
RoundDiv(n, d) ==
    LET q == n \div d
        r == n % d
    IN IF 2 * r < d THEN q
       ELSE IF 2 * r > d THEN q + 1
       ELSE IF q % 2 = 0 THEN q ELSE q + 1

\* mutant: complexity and resources are added, not inverted
feasibility_score_NoInversion(idea) ==
    IF /\ TruthyDim(idea.market_potential)
       /\ TruthyDim(idea.technical_complexity)
       /\ TruthyDim(idea.resource_requirements)
    THEN RoundDiv(10 * (idea.market_potential + idea.technical_complexity
                        + idea.resource_requirements), 3)
    ELSE 0

\* the dimensions are tenths, so the mean of the three terms is their sum
\* over 30, and in hundredths 10 * sum over 3
feasibility_score(idea) ==
    IF /\ TruthyDim(idea.market_potential)
       /\ TruthyDim(idea.technical_complexity)
       /\ TruthyDim(idea.resource_requirements)
    THEN RoundDiv(10 * (idea.market_potential
                        + (110 - idea.technical_complexity)
                        + (110 - idea.resource_requirements)), 3)
    ELSE 0

(***************************************************************************)
(* The scoring functions on their own: one call is drawn at the start and  *)
(* made; req holds the call, resp what it returned.                        *)
(***************************************************************************)
\* the stages of the enum and one value that is none of them
StageInputs == Stages \cup {"unknown"}

IdeaDataInputs == [development_stage : StageInputs, kw_ai : BOOLEAN, kw_sw : BOOLEAN]

JsonText(j) == [ws |-> 1, len |-> MinInsightLen, bold |-> FALSE, json |-> j]

\* the provider's answers to the scoring prompt: no answer in three attempts,
\* a text that is no JSON, a blank text, JSON without one of the fields, JSON
\* with a null or a word for a field, and JSON with the three numbers
ScoringScripts ==
    {<<Raises, NoResponse, Raises>>,
     <<Raises, Response(FullText), Raises>>,
     <<Response(BlankText), Raises, Raises>>,
     <<Response(JsonText(Json(Num(73), Missing, Num(5)))), Raises, Raises>>,
     <<Raises, Raises, Response(JsonText(Json(Num(73), Num(45), NonNumeric)))>>,
     <<NoResponse, Response(JsonText(Json(Num(73), Num(120), Num(5)))), Raises>>}

\* what a dimension column can hold: NULL or a value from 1.0 to 10.0
DimInputs == {NoValue, 10, 30, 40, 70, 100}

FnCalls ==
    [pc : {"call"}, fn : {"scoring"}, idea_data : IdeaDataInputs, script : ScoringScripts]
    \cup [pc : {"call"}, fn : {"fallback_scoring"}, idea_data : IdeaDataInputs]
    \cup [pc : {"call"}, fn : {"feasibility_score"},
          idea : [market_potential : DimInputs, technical_complexity : DimInputs,
                  resource_requirements : DimInputs]]

ScoringCall ==
    /\ req[1].pc = "call"
    /\ req[1].fn = "scoring"
    /\ resp' = [op |-> "scoring", idea_data |-> req[1].idea_data,
                script |-> req[1].script,
                result |-> generate_feasibility_analysis(req[1].idea_data, req[1].script)]
    /\ req' = [req EXCEPT ![1] = Idle]
    /\ UNCHANGED <<users, limiter, now, allowed, api_key, generated, gen_script, gen_result, ideas, idea_seq,
                   insights, insight_seq, gen_seq>>

\* _fallback_scoring called twice with the same idea_data
FallbackScoringCall ==
    /\ req[1].pc = "call"
    /\ req[1].fn = "fallback_scoring"
    /\ resp' = [op |-> "fallback_scoring", idea_data |-> req[1].idea_data,
                result |-> fallback_scoring(req[1].idea_data),
                again |-> fallback_scoring(req[1].idea_data)]
    /\ req' = [req EXCEPT ![1] = Idle]
    /\ UNCHANGED <<users, limiter, now, allowed, api_key, generated, gen_script, gen_result, ideas, idea_seq,
                   insights, insight_seq, gen_seq>>

FeasibilityScoreCall ==
    /\ req[1].pc = "call"
    /\ req[1].fn = "feasibility_score"
    /\ resp' = [op |-> "feasibility_score", idea |-> req[1].idea,
                result |-> feasibility_score(req[1].idea)]
    /\ req' = [req EXCEPT ![1] = Idle]
    /\ UNCHANGED <<users, limiter, now, allowed, api_key, generated, gen_script, gen_result, ideas, idea_seq,
                   insights, insight_seq, gen_seq>>

FnInit ==
    /\ users = {}
    /\ limiter = RateLimiter(0, 0)
    /\ now = 0
    /\ allowed = [client_ip \in ClientIps |-> <<>>]
    /\ api_key = TRUE
    /\ gen_script = <<>>
    /\ gen_result = [status |-> "not_run"]
    /\ ideas = <<>>
    /\ idea_seq = 0
    /\ insights = {}
    /\ insight_seq = 0
    /\ \E call \in FnCalls : req = [c \in Clients |-> IF c = 1 THEN call ELSE Idle]
    /\ resp = NoResp
    /\ gen_seq = 0
    /\ generated = [idea_id \in IdeaIds |-> 0]

FnNext == ScoringCall \/ FallbackScoringCall \/ FeasibilityScoreCall

FnSpec == FnInit /\ [][FnNext]_vars

(***************************************************************************)
(* Registration and login (routers/auth.py) over the table users.  The     *)
(* handlers have no await: each is one step.  get_password_hash,           *)
(* authenticate_user and create_access_token are imported from             *)
(* app/auth/auth.py, whose source is not at hand: they are written here as *)
(* password hashing and bearer tokens work (the hash of a password         *)
(* verifies that password and no other; authentication looks the user up   *)
(* by username and verifies the password; the token names its subject).    *)
(***************************************************************************)
Usernames == {"ann", "bob", "al"}

Emails == {"ann@x.io", "bob@x.io"}

Passwords == {"secret1", "hunter22", "short"}

\* the UserCreate bodies tried
RegisterBodies == [username : Usernames, email : Emails, password : Passwords]

\* the validators of UserCreate (schemas/user.py:16-28)
ValidUserCreate(body) ==
    /\ Len(body.username) >= 3
    /\ Len(body.username) <= 50
    /\ Len(body.password) >= 6

get_password_hash(password) == [hash_of |-> password]

verify_password(plain_password, hashed_password) ==
    hashed_password.hash_of = plain_password

NoUser == [id |-> 0]

\* the user of that name when the password verifies, no user otherwise
authenticate_user(username, password) ==
    LET found == {u \in users : u.username = username}
    IN IF found = {} THEN NoUser
       ELSE LET user == CHOOSE u \in found : TRUE
            IN IF verify_password(password, user.hashed_password)
               THEN user ELSE NoUser

create_access_token(data) == [sub |-> data.sub, signed |-> TRUE]

\* the accounts the requests on ideas are made from
SeedUsers ==
    {[id |-> u, username |-> "user" \o ToString(u),
      email |-> "user" \o ToString(u) \o "@x.io",
      hashed_password |-> get_password_hash("secret" \o ToString(u))] : u \in Users}

\* mutant: only the username is looked up
ExistingUser_UsernameOnly(body) ==
    {u \in users : u.username = body.username}

\* the rows the query of register_user matches (auth.py:26-28)
ExistingUser(body) ==
    {u \in users : u.username = body.username \/ u.email = body.email}

\* User(...) as register_user builds it (auth.py:43-48); the key is the next
\* of the sequence, and no row of users is ever deleted
NewUser(body) ==
    [id |-> Cardinality(users) + 1, username |-> body.username,
     email |-> body.email,
     hashed_password |-> get_password_hash(body.password)]

\* unique=True on username and on email (models/user.py:15-16)
ViolatesUnique(row) ==
    \E u \in users : u.username = row.username \/ u.email = row.email

register_user(body, commit_ok) ==
    /\ IF ~ValidUserCreate(body)
       THEN /\ Respond([op |-> "register", status |-> 422, request |-> body])
            /\ UNCHANGED users
       ELSE IF ExistingUser(body) # {}
       THEN /\ \E existing_user \in ExistingUser(body) :
                 Respond([op |-> "register", status |-> 400, request |-> body,
                          detail |-> IF existing_user.username = body.username
                                     THEN "Username already registered"
                                     ELSE "Email already registered"])
            /\ UNCHANGED users
       ELSE IF ~commit_ok \/ ViolatesUnique(NewUser(body))
       THEN \* except Exception: rollback, 500
            /\ Respond([op |-> "register", status |-> 500, request |-> body])
            /\ UNCHANGED users
       ELSE /\ users' = users \cup {NewUser(body)}
            /\ Respond([op |-> "register", status |-> 201, request |-> body,
                        body |-> [id |-> NewUser(body).id,
                                  username |-> NewUser(body).username,
                                  email |-> NewUser(body).email]])
    /\ UNCHANGED <<limiter, now, allowed, api_key, generated, gen_script, gen_result,
                   ideas, idea_seq, insights, insight_seq, req, gen_seq>>

\* mutant: a token is issued whether or not the user was authenticated
TokenResponse_Always(user, form_data) ==
    [op |-> "login", status |-> 200, request |-> form_data,
     access_token |-> create_access_token([sub |-> form_data.username]),
     token_type |-> "bearer"]

\* what login_for_access_token answers (auth.py:75-93)
TokenResponse(user, form_data) ==
    IF user = NoUser
    THEN [op |-> "login", status |-> 401, request |-> form_data]
    ELSE [op |-> "login", status |-> 200, request |-> form_data,
          access_token |-> create_access_token([sub |-> user.username]),
          token_type |-> "bearer"]

login_for_access_token(username, password) ==
    /\ Respond(TokenResponse(authenticate_user(username, password),
                             [username |-> username, password |-> password]))
    /\ UNCHANGED <<users, limiter, now, allowed, api_key, generated, gen_script,
                   gen_result, ideas, idea_seq, insights, insight_seq, req, gen_seq>>

(***************************************************************************)
(* Specifications.                                                         *)
(*   Spec      the requests of one client, one after the other: every      *)
(*             handler runs to its response before the next one starts     *)
(*   ConcSpec  the requests of MaxClients clients, interleaved at the      *)
(*             awaits of the handlers                                      *)
(*   GenSpec   one call of the AI client against a scripted provider       *)
(*   CredSpec  Spec, started with or without the AI credential             *)
(*   FnSpec    one call of a scoring function (defined with them above)    *)
(*   AuthSpec  registrations and logins                                    *)
(*   LimSpec   a rate limiter and the clock                                *)
(***************************************************************************)
NoScript == <<>>

\* the limiter of a deployment that does not run the middleware
NoLimiter == RateLimiter(0, 0)

\* no request has been let through
NoneAllowed == [client_ip \in ClientIps |-> <<>>]

InitTables ==
    /\ users = SeedUsers
    /\ limiter = NoLimiter
    /\ now = 0
    /\ allowed = [client_ip \in ClientIps |-> <<>>]
    /\ ideas = <<>>
    /\ idea_seq = 0
    /\ insights = {}
    /\ insight_seq = 0
    /\ req = [c \in Clients |-> Idle]
    /\ resp = NoResp
    /\ gen_seq = 0
    /\ generated = [idea_id \in IdeaIds |-> 0]

\* the deployment the requests run in has its credential
Init ==
    /\ InitTables
    /\ api_key = TRUE
    /\ gen_script = NoScript
    /\ gen_result = NotRun

Handlers(c) ==
    \/ \E user \in Users, body \in CreateBodies, commit_ok \in BOOLEAN :
          CreateBegin(c, user, body, commit_ok)
    \/ \E script \in PitchScripts : CreateRefine(c, script)
    \/ \E script \in ScoreScripts, commit_ok \in BOOLEAN : CreateScore(c, script, commit_ok)
    \/ \E user \in Users, idea_id \in IdeaIds : EnhanceBegin(c, user, idea_id)
    \/ \E script \in PitchScripts : EnhanceRefine(c, script)
    \/ \E script \in ScoreScripts, commit_ok \in BOOLEAN : EnhanceScore(c, script, commit_ok)
    \/ \E user \in Users, idea_id \in IdeaIds, force \in BOOLEAN :
          InsightsBegin(c, user, idea_id, force)
    \/ \E script \in RequestScripts : InsightsMarket(c, script)
    \/ \E script \in RequestScripts : InsightsRisk(c, script)
    \/ \E script \in RequestScripts, commit_ok \in BOOLEAN :
          InsightsRoadmap(c, script, commit_ok)
    \/ \E user \in Users, idea_id \in IdeaIds, body \in UpdateBodies, commit_ok \in BOOLEAN :
          update_idea(c, user, idea_id, body, commit_ok)
    \/ \E user \in Users, idea_id \in IdeaIds, commit_ok \in BOOLEAN :
          delete_idea_insights(c, user, idea_id, commit_ok)
    \/ \E user \in Users, idea_id \in IdeaIds : get_insights_history(c, user, idea_id)
    \/ \E user \in Users, idea_id \in IdeaIds, fk_enforced \in BOOLEAN, commit_ok \in BOOLEAN :
          delete_idea(c, user, idea_id, fk_enforced, commit_ok)
    \/ \E user \in Users, idea_id \in IdeaIds : get_idea(c, user, idea_id)
    \/ \E user \in Users : list_ideas(c, user)

Next == Handlers(1)

Spec == Init /\ [][Next]_vars

\* the process as it starts with or without GEMINI_API_KEY in its environment:
\* nothing at start reads the key (the service module is imported by the
\* handlers), so the same requests are served either way
CredInit ==
    /\ InitTables
    /\ api_key \in BOOLEAN
    /\ gen_script = NoScript
    /\ gen_result = NotRun

CredSpec == CredInit /\ [][Next]_vars

\* the provider's answers in the interleaved runs: a full text on the second call
ConcScripts == {<<Raises, Response(FullText), Raises>>}

\* the insight requests of every client, on the ideas the first user creates
\* through the first client
InsightHandlers(c) ==
    \/ \E user \in Users, idea_id \in IdeaIds, force \in BOOLEAN :
          InsightsBegin(c, user, idea_id, force)
    \/ \E script \in ConcScripts : InsightsMarket(c, script)
    \/ \E script \in ConcScripts : InsightsRisk(c, script)
    \/ \E script \in ConcScripts, commit_ok \in BOOLEAN :
          InsightsRoadmap(c, script, commit_ok)
    \/ \E user \in Users, idea_id \in IdeaIds, commit_ok \in BOOLEAN :
          delete_idea_insights(c, user, idea_id, commit_ok)

CreateHandlers(c) ==
    \/ \E body \in CreateBodies, commit_ok \in BOOLEAN :
          CreateBegin(c, 1, body, commit_ok)
    \/ \E script \in ConcScripts : CreateRefine(c, script)
    \/ \E script \in ConcScripts, commit_ok \in BOOLEAN : CreateScore(c, script, commit_ok)

NextConc ==
    \/ CreateHandlers(1)
    \/ \E c \in Clients : InsightHandlers(c)

ConcSpec == Init /\ [][NextConc]_vars

GenInit ==
    /\ InitTables
    /\ api_key = TRUE
    /\ gen_script \in ProviderScripts
    /\ gen_result = NotRun

GenNext == GenerateCall

GenSpec == GenInit /\ [][GenNext]_vars

\* registration and login against a users table that starts empty
AuthInit ==
    /\ users = {}
    /\ limiter = NoLimiter
    /\ now = 0
    /\ allowed = [client_ip \in ClientIps |-> <<>>]
    /\ api_key = TRUE
    /\ gen_script = NoScript
    /\ gen_result = NotRun
    /\ ideas = <<>>
    /\ idea_seq = 0
    /\ insights = {}
    /\ insight_seq = 0
    /\ req = [c \in Clients |-> Idle]
    /\ resp = NoResp
    /\ gen_seq = 0
    /\ generated = [idea_id \in IdeaIds |-> 0]

AuthNext ==
    \/ \E body \in RegisterBodies, commit_ok \in BOOLEAN : register_user(body, commit_ok)
    \/ \E username \in Usernames, password \in Passwords :
          login_for_access_token(username, password)

AuthSpec == AuthInit /\ [][AuthNext]_vars

\* one limiter, of any limit and window, in front of the requests of two
\* clients
LimInit ==
    /\ users = {}
    /\ limiter \in {RateLimiter(m, w) : m \in 1..MaxRate, w \in 1..MaxWindow}
    /\ now = 0
    /\ allowed = NoneAllowed
    /\ api_key = TRUE
    /\ gen_script = NoScript
    /\ gen_result = NotRun
    /\ ideas = <<>>
    /\ idea_seq = 0
    /\ insights = {}
    /\ insight_seq = 0
    /\ req = [c \in Clients |-> Idle]
    /\ resp = NoResp
    /\ gen_seq = 0
    /\ generated = [idea_id \in IdeaIds |-> 0]

LimNext ==
    \/ \E client_ip \in ClientIps : rate_limit_middleware(client_ip)
    \/ Tick

LimSpec == LimInit /\ [][LimNext]_vars

(***************************************************************************)
(* Properties.                                                             *)
(***************************************************************************)
\* a generation of get_idea_insights committed and answered in this step
Regenerated(r) ==
    r.op = "insights" /\ r.status = 200 /\ ~r.cached /\ r.had_record

\* the texts and the flag of a stored row are those of a response body
SameContent(body, row) ==
    /\ body.market_insights = row.market_insights
    /\ body.risk_assessment = row.risk_assessment
    /\ body.implementation_roadmap = row.implementation_roadmap
    /\ body.is_ai_generated = row.is_ai_generated
    /\ body.generation_version = row.generation_version

\* C1: the persisted ai_validated flag of an existing idea never goes from
\* true to false, whatever create, update, enhance, insight generation or
\* insight deletion step is taken.
C1_ValidatedStaysTrue ==
    [][\A i \in DOMAIN ideas \cap DOMAIN ideas' :
           ideas[i].ai_validated => ideas'[i].ai_validated]_vars

\* a validated idea was enhanced again, the pitch fell back to the template,
\* and the committed row is still validated
C1_Witness ==
    /\ resp.op = "enhance"
    /\ resp.status = 200
    /\ resp.was_validated
    /\ resp.body.ai_refined_pitch.src = "fallback_service"
    /\ ideas[resp.idea_id].ai_validated
    /\ ideas[resp.idea_id] = resp.body

\* C2: a forced regeneration on a record of version v commits version v + 1
\* with the three texts and is_ai_generated of this run, in one commit; no
\* stored record ever mixes texts of two generations.
C2_RegenerateAtomic ==
    [][/\ Regenerated(resp') =>
             \E old \in insights, new \in insights' :
                /\ old.id = resp'.row_id
                /\ new.id = resp'.row_id
                /\ new.generation_version = old.generation_version + 1
                /\ \A f \in InsightFields : new[f] = resp'.assigned[f]
                /\ new.is_ai_generated = resp'.assigned.is_ai_generated
                /\ \A f \in InsightFields : new.written_by[f] = resp'.run
       /\ \A row \in insights' :
             \A f, g \in InsightFields : row.written_by[f] = row.written_by[g]]_vars

\* a record regenerated twice: version 3, every text from the last run
C2_Witness ==
    /\ Regenerated(resp)
    /\ resp.body.generation_version = 3
    /\ \E row \in insights :
          /\ row.id = resp.row_id
          /\ row.generation_version = 3
          /\ row.market_insights.src = "ai"
          /\ \A f \in InsightFields : row.written_by[f] = resp.run

\* C3: forceRegenerate=false on an idea with a record makes no AI-client call,
\* returns the stored texts, flag and version, and leaves the record as it is;
\* no generation starts for such a request.
C3_CacheHit ==
    [][/\ (resp'.op = "insights" /\ resp'.status = 200 /\ resp'.cached) =>
             /\ resp'.ai_calls = 0
             /\ \E row \in insights :
                   /\ row.idea_id = resp'.idea_id
                   /\ SameContent(resp'.body, row)
             /\ insights' = insights
             /\ req' = req
             /\ gen_seq' = gen_seq
       /\ \A c \in Clients :
             (req[c].pc = "idle" /\ req'[c].pc = "market"
                 /\ \E row \in insights : row.idea_id = req'[c].idea_id)
             => req'[c].force]_vars

\* a regenerated record of version 2 is served from the store
C3_Witness ==
    /\ resp.op = "insights"
    /\ resp.status = 200
    /\ resp.cached
    /\ ~resp.force
    /\ resp.ai_calls = 0
    /\ resp.body.generation_version = 2
    /\ \E row \in insights : row.id = resp.row_id /\ SameContent(resp.body, row)

\* the response field of each generation
FieldOf(gen) ==
    CASE gen = "market" -> "market_insights"
      [] gen = "risk" -> "risk_assessment"
      [] gen = "roadmap" -> "implementation_roadmap"

IsFallbackText(v) == v.src \in {"fallback_service", "fallback_router"}

\* C4: when exactly one of the three generations fails at the provider and
\* the two others give AI text, the record returned and stored has
\* is_ai_generated = false and the failed field holds its fallback template;
\* is_ai_generated is false whenever a field holds fallback text.
C4_FallbackClearsFlag ==
    /\ (resp.op = "insights" /\ resp.status = 200 /\ ~resp.cached) =>
          /\ (/\ Cardinality(resp.outcomes) = 1
              /\ \A gen \in {"market", "risk", "roadmap"} \ resp.outcomes :
                    resp.body[FieldOf(gen)].src = "ai")
             => /\ ~resp.body.is_ai_generated
                /\ \A gen \in resp.outcomes : IsFallbackText(resp.body[FieldOf(gen)])
          /\ (\E f \in InsightFields : IsFallbackText(resp.body[f]))
             => ~resp.body.is_ai_generated
    /\ \A row \in insights :
          (\E f \in InsightFields : IsFallbackText(row[f])) => ~row.is_ai_generated

\* C5: with requests one after the other an idea has at most one insight
\* record, and a regeneration changes the record it found: it adds no row.
C5_OneRecordSequential ==
    [][/\ \A idea_id \in IdeaIds :
             Cardinality({row \in insights' : row.idea_id = idea_id}) <= 1
       /\ Regenerated(resp') =>
             {row.id : row \in insights'} = {row.id : row \in insights}]_vars

\* a regeneration answered, and the idea has the one row it had before
C5_Witness ==
    /\ Regenerated(resp)
    /\ Cardinality(InsightRowsOf(resp.idea_id)) = 1
    /\ \E row \in insights : row.id = resp.row_id /\ row.generation_version = 2

\* C6: however the insight requests of several clients for one idea
\* interleave, the idea never has two insight records.
C6_OneRecordConcurrent ==
    \A idea_id \in DOMAIN ideas :
        \A r1, r2 \in insights :
            (r1.idea_id = idea_id /\ r2.idea_id = idea_id) => r1.id = r2.id

\* C7: overlapping forced regenerations serialize: each commit stores a
\* version strictly greater than the version stored by the commit before it.
C7_VersionsSerialize ==
    [][Regenerated(resp') =>
          \A old \in insights, new \in insights' :
              (old.id = resp'.row_id /\ new.id = resp'.row_id)
              => new.generation_version > old.generation_version]_vars

\* an attempt the claims count as failed: the provider raised, gave no
\* response, or gave a response whose text is the empty string
AttemptFails(out) ==
    \/ out.kind \in {"raise", "none"}
    \/ out.kind = "resp" /\ out.text.len = 0 /\ out.text.ws = 0

AbsentOrEmpty(out) ==
    \/ out.kind = "none"
    \/ out.kind = "resp" /\ out.text.len = 0 /\ out.text.ws = 0

\* C8: when the provider fails on every attempt, generate calls it exactly 3
\* times and then propagates the failure: no fourth call, no substitute content.
C8_RetryExhaustion ==
    (gen_result # NotRun /\ \A k \in DOMAIN gen_script : AttemptFails(gen_script[k]))
    => /\ gen_result.calls = 3
       /\ gen_result.status = "raise"
       /\ gen_result.response = NoResponse

\* the three attempts failed in three different ways and the failure surfaced
C8_Witness ==
    /\ gen_result # NotRun
    /\ gen_script[1] = Raises
    /\ gen_script[2] = NoResponse
    /\ gen_script[3] = Response([ws |-> 0, len |-> 0, json |-> NotJson, bold |-> FALSE])
    /\ AttemptFails(gen_script[4])
    /\ gen_result.status = "raise"
    /\ gen_result.calls = 3

\* C9: generate ends at the first successful attempt: for a first success at
\* attempt k <= 3 it returns that response after exactly k provider calls.
C9_FirstSuccessReturned ==
    gen_result # NotRun =>
        \A k \in 1..3 :
            (/\ ~AttemptFails(gen_script[k])
             /\ \A j \in 1..(k - 1) : AttemptFails(gen_script[j]))
            => /\ gen_result.status = "ok"
               /\ gen_result.response = gen_script[k]
               /\ gen_result.calls = k

\* two failures, then the third answer is returned although a fourth differs
C9_Witness ==
    /\ gen_result # NotRun
    /\ AttemptFails(gen_script[1])
    /\ AttemptFails(gen_script[2])
    /\ ~AttemptFails(gen_script[3])
    /\ ~AttemptFails(gen_script[4])
    /\ gen_script[4] # gen_script[3]
    /\ gen_result.response = gen_script[3]
    /\ gen_result.calls = 3

\* C10: an absent response or one with empty text is a failed attempt: it uses
\* up one of the 3 attempts and is retried, and generate never returns a
\* response whose text is empty.
C10_EmptyIsFailure ==
    gen_result # NotRun =>
        /\ gen_result.status = "ok" =>
              /\ gen_result.response.kind = "resp"
              /\ gen_result.response.text.len + gen_result.response.text.ws > 0
        /\ \A k \in 1..3 :
              (/\ AbsentOrEmpty(gen_script[k])
               /\ \A j \in 1..(k - 1) : AttemptFails(gen_script[j]))
              => IF k < 3
                 THEN gen_result.calls > k
                 ELSE gen_result.calls = 3 /\ gen_result.status = "raise"

\* an empty text on the first call, no response on the second, a text on the third
C10_Witness ==
    /\ gen_result # NotRun
    /\ gen_script[1].kind = "resp" /\ AbsentOrEmpty(gen_script[1])
    /\ gen_script[2] = NoResponse
    /\ ~AttemptFails(gen_script[3])
    /\ gen_result.status = "ok"
    /\ gen_result.calls = 3

\* C11: when the provider fails on every call of an enhance run whose commit
\* goes through, enhance answers 200 with the idea: the stored pitch is the
\* fallback template (not null), the three dimensions are those of the
\* rule-based fallback, and ai_validated is true.
C11_EnhanceSurvivesProvider ==
    (/\ resp.op = "enhance"
     /\ "outcomes" \in DOMAIN resp
     /\ resp.outcomes = {"pitch", "score"}
     /\ resp.commit_ok)
    => /\ resp.status = 200
       /\ resp.body.ai_refined_pitch.src = "fallback_service"
       /\ resp.body.ai_refined_pitch # NullPitch
       /\ <<resp.body.market_potential, resp.body.technical_complexity,
            resp.body.resource_requirements>> = fallback_scoring(IdeaData(resp.body))
       /\ resp.body.ai_validated
       /\ ideas[resp.idea_id] = resp.body

\* an idea that was not validated is enhanced while the provider is down
C11_Witness ==
    /\ resp.op = "enhance"
    /\ "outcomes" \in DOMAIN resp
    /\ resp.outcomes = {"pitch", "score"}
    /\ resp.status = 200
    /\ ~resp.was_validated
    /\ ideas[resp.idea_id].ai_validated
    /\ ideas[resp.idea_id].ai_refined_pitch.src = "fallback_service"

\* the five columns one enhancement run assigns
EnhancedFields ==
    {"ai_refined_pitch", "market_potential", "technical_complexity",
     "resource_requirements", "ai_validated"}

\* C12: an enhancement is all-or-nothing on the stored idea: while it runs
\* and when its commit fails the stored ideas are as before, and when it
\* commits the stored idea holds the pitch, the three dimensions and the flag
\* of that run, all five together.
C12_EnhanceAllOrNothing ==
    [][/\ (\E c \in Clients : req'[c].pc \in {"enhance_refine", "enhance_score",
                                            "create_refine", "create_score"}
                              /\ req[c].pc # "idle")
          => ideas' = ideas
       /\ (resp'.op \in {"enhance", "create"} /\ "assigned" \in DOMAIN resp') =>
             IF \/ (resp'.op = "enhance" /\ resp'.status = 500)
                \/ (resp'.op = "create" /\ ~resp'.committed)
             THEN ideas' = ideas
             ELSE /\ \A f \in EnhancedFields :
                        ideas'[resp'.idea_id][f] = resp'.assigned[f]
                  /\ \A i \in DOMAIN ideas \ {resp'.idea_id} : ideas'[i] = ideas[i]]_vars

\* the commit of an enhancement of a fresh idea fails: the row keeps its null
\* pitch and stays unvalidated although the run had produced an AI pitch
C12_Witness ==
    /\ resp.op = "enhance"
    /\ resp.status = 500
    /\ "assigned" \in DOMAIN resp
    /\ ~resp.commit_ok
    /\ resp.assigned.ai_refined_pitch.src = "ai"
    /\ ideas[resp.idea_id].ai_refined_pitch = NullPitch
    /\ ~ideas[resp.idea_id].ai_validated

\* a generation run of get_idea_insights answered in this step
RunAnswered(r) ==
    r.op = "insights" /\ "run" \in DOMAIN r /\ ~r.cached

C14_FailedCommitKeepsState ==
    [][(RunAnswered(resp') /\ ~resp'.persisted) =>
          /\ resp'.status = 500
          /\ insights' = insights]_vars

\* the commit of a regeneration that had produced new AI texts fails and the
\* record is still the one of the first generation
C14_Witness ==
    /\ RunAnswered(resp)
    /\ resp.status = 500
    /\ resp.had_record
    /\ resp.assigned.market_insights.src = "ai"
    /\ \E row \in insights :
          /\ row.idea_id = resp.idea_id
          /\ row.generation_version = 1
          /\ row.market_insights # resp.assigned.market_insights
          /\ \A f \in InsightFields : row.written_by[f] # resp.run

\* C15: deleting an idea removes its insight record with it: every stored
\* insight record references a stored idea.
C15_NoOrphanInsights ==
    \A row \in insights : row.idea_id \in DOMAIN ideas

\* C16: a missing AI credential stops the process at start: no create,
\* enhance or insight request is accepted and then fails or degrades inside
\* the request because the credential is absent.
C16_CredentialFatalAtStart ==
    ~api_key =>
        ~(/\ resp.op \in {"create", "enhance", "insights"}
          /\ "cause" \in DOMAIN resp
          /\ resp.cause = "no_credential")

\* C17: generation_version counts the generations of an idea's insights:
\* over generations and deletions of the record it never decreases, and the
\* stored version equals the number of generations committed for the idea.
C17_VersionCountsGenerations ==
    [][\A new \in insights' :
          /\ new.generation_version = generated'[new.idea_id]
          /\ \A old \in insights :
                old.idea_id = new.idea_id
                => new.generation_version >= old.generation_version]_vars


\* the provider gives no usable answer in any of the three attempts
NoAnswer(script) == \A k \in 1..max_retries : AttemptFails(script[k])

\* the text of the first attempt that does not fail
AnswerOf(script) ==
    script[CHOOSE k \in 1..max_retries :
               /\ ~AttemptFails(script[k])
               /\ \A j \in 1..(k - 1) : AttemptFails(script[j])].text

\* a text that is no JSON, or JSON where one of the three fields is absent or
\* holds something that is not a number
UnusableJson(text) ==
    IF ~text.json.valid THEN TRUE
    ELSE \/ text.json.market_potential.t # "num"
         \/ text.json.technical_complexity.t # "num"
         \/ text.json.resource_requirements.t # "num"

\* C18: the scoring operation always succeeds: when the AI client fails after
\* its retries, when the response is not valid JSON, and when the JSON lacks one
\* of the three numeric fields or holds a non-numeric value, it returns the
\* rule-based fallback triple and never raises an error to its caller.
C18_ScoringNeverRaises ==
    resp.op = "scoring" =>
        /\ ~resp.result.raised
        /\ (NoAnswer(resp.script) \/ UnusableJson(AnswerOf(resp.script)))
           => resp.result.value = fallback_scoring(resp.idea_data)

\* a scoring call whose answer is JSON without one field returned the fallback
C18_Witness ==
    /\ resp.op = "scoring"
    /\ ~NoAnswer(resp.script)
    /\ AnswerOf(resp.script).json.valid
    /\ AnswerOf(resp.script).json.technical_complexity.t = "missing"
    /\ ~resp.result.raised
    /\ resp.result.source = "fallback"
    /\ resp.result.value = fallback_scoring(resp.idea_data)

AllPresent(idea) ==
    /\ idea.market_potential # NoValue
    /\ idea.technical_complexity # NoValue
    /\ idea.resource_requirements # NoValue

\* x hundredths is (m + (11 - t) + (11 - r)) / 3 rounded to 2 decimals, the
\* dimensions in tenths: 3 * x is within 1.5 of ten times the sum
IsRoundedMean(x, idea) ==
    LET sum == idea.market_potential + (110 - idea.technical_complexity)
               + (110 - idea.resource_requirements)
        d == 3 * x - 10 * sum
    IN 2 * d <= 3 /\ 2 * d >= 0 - 3

ExampleIdea == [market_potential |-> 70, technical_complexity |-> 30,
                resource_requirements |-> 40]

\* C20 as stated: feasibility_score is the rounded mean of market, 11 - technical
\* and 11 - resource, 8.67 for m=7.0, t=3.0, r=4.0, and 0.0 when a dimension is
\* missing.
C20_FeasibilityScore_AsStated ==
    resp.op = "feasibility_score" =>
        /\ AllPresent(resp.idea) => IsRoundedMean(resp.result, resp.idea)
        /\ resp.idea = ExampleIdea => resp.result = 867
        /\ ~AllPresent(resp.idea) => resp.result = 0

\* C20: feasibility_score of an idea equals (market_potential + (11 -
\* technical_complexity) + (11 - resource_requirements)) / 3 rounded to 2
\* decimals, computed from the idea's current dimension values at read time
\* (7.33 for m=7.0, t=3.0, r=4.0), and equals 0.0 when any of the three
\* dimensions is missing.
C20_FeasibilityScore ==
    resp.op = "feasibility_score" =>
        /\ AllPresent(resp.idea) => IsRoundedMean(resp.result, resp.idea)
        /\ resp.idea = ExampleIdea => resp.result = 733
        /\ ~AllPresent(resp.idea) => resp.result = 0

\* the score of the example idea has been read
C20_Witness ==
    /\ resp.op = "feasibility_score"
    /\ resp.idea = ExampleIdea
    /\ resp.result = 733


\* C21: in every persisted state each of an idea's three dimensions lies in
\* [1.0, 10.0]: 5.0 at creation, within the range when enhance writes it, and
\* update rejects a value outside the range without changing the idea.
C21_DimensionsInRange ==
    \A i \in DOMAIN ideas :
        \A f \in ScoreFields : ideas[i][f] >= 10 /\ ideas[i][f] <= 100


\* C22: deleteInsights on an idea that has an InsightRecord removes that record
\* and returns success, leaving the idea's refined pitch, dimensions and
\* ai_validated unchanged; deleteInsights on an idea with no InsightRecord
\* returns not-found and changes nothing.  (A commit the database refuses is
\* answered with an error and changes nothing.)
C22_DeleteInsightsFrame ==
    [][(resp'.op = "delete_insights" /\ OwnedIdea(resp'.user, resp'.idea_id)) =>
          LET had == InsightRowsOf(resp'.idea_id)
          IN /\ ideas' = ideas
             /\ IF had = {}
                THEN resp'.status = 404 /\ insights' = insights
                ELSE IF resp'.detail = "commit failed"
                THEN resp'.status = 500 /\ insights' = insights
                ELSE /\ resp'.status = 200
                     /\ insights' = insights \ had
                     /\ \A row \in insights' : row.idea_id # resp'.idea_id]_vars

\* the record of an enhanced idea has been deleted: the idea is still validated
\* and still holds its pitch
C22_Witness ==
    /\ resp.op = "delete_insights"
    /\ resp.status = 200
    /\ resp.idea_id \in DOMAIN ideas
    /\ ideas[resp.idea_id].ai_validated
    /\ ideas[resp.idea_id].ai_refined_pitch # NullPitch
    /\ InsightRowsOf(resp.idea_id) = {}


\* C23: after a user has registered, a login with that username and the
\* registered password returns status 200 with an access token of type bearer,
\* and a login with that username and any other password returns status 401 and
\* issues no token.
C23_LoginAfterRegistration ==
    resp.op = "login" =>
        \A u \in users :
            u.username = resp.request.username =>
                IF u.hashed_password.hash_of = resp.request.password
                THEN /\ resp.status = 200
                     /\ "access_token" \in DOMAIN resp
                     /\ resp.token_type = "bearer"
                ELSE /\ resp.status = 401
                     /\ "access_token" \notin DOMAIN resp

\* a registered user has logged in and holds a token on their own name
C23_Witness ==
    /\ resp.op = "login"
    /\ resp.status = 200
    /\ \E u \in users : u.username = resp.request.username
    /\ resp.access_token.sub = resp.request.username

\* no two rows of users share a username or an email
UniqueUsers ==
    \A u, v \in users :
        (u.username = v.username \/ u.email = v.email) => u = v

\* C24: registering with a username and an email that no stored user has creates
\* exactly one user and returns status 201 with that username and an id;
\* registering with a username or an email already stored returns status 400
\* and creates no user; so no two users ever share a username or an email.
\* (The body is one the schema accepts; a commit the database refuses is
\* answered with an error and creates no user.)
C24_RegistrationUnique ==
    /\ []UniqueUsers
    /\ [][(resp'.op = "register" /\ ValidUserCreate(resp'.request)) =>
            LET b == resp'.request
                taken == \E u \in users : u.username = b.username \/ u.email = b.email
            IN IF taken
               THEN resp'.status = 400 /\ users' = users
               ELSE IF resp'.status = 500
               THEN users' = users
               ELSE /\ resp'.status = 201
                    /\ resp'.body.username = b.username
                    /\ "id" \in DOMAIN resp'.body
                    /\ users \subseteq users'
                    /\ Cardinality(users') = Cardinality(users) + 1
                    /\ \E u \in users' \ users :
                          /\ u.username = b.username
                          /\ u.email = b.email
                          /\ u.id = resp'.body.id]_vars

\* a second user has registered beside the first
C24_Witness ==
    /\ resp.op = "register"
    /\ resp.status = 201
    /\ Cardinality(users) = 2
    /\ \E u \in users : u.id = resp.body.id /\ u.username = resp.request.username


\* the attempts, counted from 1, that fail with every attempt before them and
\* are not the final one
FailedNotFinal ==
    {k \in 1..(max_retries - 1) : \A j \in 1..k : AttemptFails(gen_script[j])}

\* C25: in generate, a failed attempt that is not the final one is followed by a
\* wait of base delay times 2^attempt before the next provider call (2 seconds
\* after the first failure, 4 seconds after the second), and no wait follows the
\* failure of the final attempt.
C25_ExponentialBackoff ==
    gen_result # NotRun =>
        /\ Len(gen_result.delays) = Cardinality(FailedNotFinal)
        /\ Len(gen_result.delays) = gen_result.calls - 1
        /\ \A k \in DOMAIN gen_result.delays :
              gen_result.delays[k] = IF k = 1 THEN 2 ELSE 4

\* three failures: waits of 2 and 4 seconds, none after the third
C25_Witness ==
    /\ gen_result # NotRun
    /\ \A j \in 1..max_retries : AttemptFails(gen_script[j])
    /\ gen_result.status = "raise"
    /\ gen_result.calls = 3
    /\ gen_result.delays = <<2, 4>>


\* a value held to [1.0, 10.0], in tenths
Clamped(v) == IF v < 10 THEN 10 ELSE IF v > 100 THEN 100 ELSE v

\* C26: on the primary scoring path, when the AI response parses as JSON with
\* the three numeric fields, each returned dimension equals the AI's value
\* clamped to [1.0, 10.0]: below 1.0 gives 1.0, above 10.0 gives 10.0, and a
\* value inside the range is returned unchanged.
C26_PrimaryPathClamps ==
    (/\ resp.op = "scoring"
     /\ ~NoAnswer(resp.script)
     /\ ~UnusableJson(AnswerOf(resp.script))) =>
        LET analysis == AnswerOf(resp.script).json
        IN /\ resp.result.value[1] = Clamped(analysis.market_potential.v)
           /\ resp.result.value[2] = Clamped(analysis.technical_complexity.v)
           /\ resp.result.value[3] = Clamped(analysis.resource_requirements.v)

\* the AI answered 7.3, 12.0 and 0.5: 7.3 is kept, 12.0 becomes 10.0, 0.5
\* becomes 1.0
C26_Witness ==
    /\ resp.op = "scoring"
    /\ ~NoAnswer(resp.script)
    /\ AnswerOf(resp.script).json = Json(Num(73), Num(120), Num(5))
    /\ resp.result.source = "ai"
    /\ resp.result.value = <<73, 100, 10>>


\* the stages in their order
StageOrder == <<"concept", "research", "prototype", "testing", "launch">>

\* what the fallback scorer returns for the k-th stage and a title and
\* description without keywords: the base scores of the stage
BaseOf(k) ==
    fallback_scoring([development_stage |-> StageOrder[k],
                      kw_ai |-> FALSE, kw_sw |-> FALSE])

\* C27: in the fallback scorer's stage table, along the stage order concept <
\* research < prototype < testing < launch the market and resource base scores
\* rise at every step and the technical-complexity base score falls at every
\* step.
C27_StageTableMonotone ==
    (/\ resp.op = "fallback_scoring"
     /\ ~resp.idea_data.kw_ai
     /\ ~resp.idea_data.kw_sw) =>
        \A k \in 1..(Len(StageOrder) - 1) :
            resp.idea_data.development_stage = StageOrder[k] =>
                /\ resp.result = BaseOf(k)
                /\ BaseOf(k)[1] < BaseOf(k + 1)[1]
                /\ BaseOf(k)[2] > BaseOf(k + 1)[2]
                /\ BaseOf(k)[3] < BaseOf(k + 1)[3]


\* the columns an enhancement writes
EnhancementColumns ==
    {"ai_validated", "ai_refined_pitch", "market_potential",
     "technical_complexity", "resource_requirements"}

OnAnothersIdea(r) ==
    /\ "user" \in DOMAIN r
    /\ "idea_id" \in DOMAIN r
    /\ r.idea_id \in DOMAIN ideas
    /\ ideas[r.idea_id].created_by # r.user

\* C29: no operation lets a user read or change another user's data: for an
\* idea created by user A, every get, update, delete, enhance, getInsights,
\* deleteInsights and getInsightsHistory request made by a different user B is
\* refused (not-found or forbidden), makes no AI call, and leaves the idea and
\* its InsightRecord unchanged; B's list never contains that idea; and the
\* insights a user is served were generated on that user's request.  (A body
\* the schema rejects is refused before the handler runs.)
C29_CrossUserIsolation ==
    [][/\ (/\ resp'.op \in {"get", "update", "delete", "enhance", "insights",
                            "delete_insights", "history"}
           /\ OnAnothersIdea(resp')
           /\ resp'.status # 422) =>
              /\ resp'.status \in {403, 404}
              /\ UNCHANGED <<ideas, idea_seq, insights, insight_seq, req, gen_seq>>
       /\ resp'.op = "list" =>
              \A i \in resp'.items : ideas[i].created_by = resp'.user
       /\ (resp'.op = "insights" /\ resp'.status = 200) =>
              \A row \in insights' :
                  row.id = resp'.row_id => row.made_for = resp'.user]_vars


\* the requests of a client let through from time t - window_seconds to t
AllowedInWindow(log, client_ip, t) ==
    {k \in DOMAIN log[client_ip] :
        /\ log[client_ip][k] >= t - limiter.window_seconds
        /\ log[client_ip][k] <= t}

\* q is what is left of p once some of its oldest entries are dropped
IsSuffix(q, p) ==
    \E n \in 0..Len(p) : q = SubSeq(p, n + 1, Len(p))

\* C30: for every RateLimiter and every client, at the moment a request is
\* allowed the number of that client's allowed requests with timestamps in the
\* last window_seconds (the new one included) is at most max_requests; a
\* rejected request is not recorded, so it neither uses quota nor postpones the
\* time at which the client is allowed again; and one client's requests never
\* change another client's count.
C30_RateLimiterWindow ==
    [][resp'.op = "rate_limit" =>
          LET c == resp'.client_ip
          IN /\ resp'.status = 200 =>
                  /\ allowed'[c] = Append(allowed[c], now)
                  /\ Cardinality(AllowedInWindow(allowed', c, now))
                        <= limiter.max_requests
             /\ resp'.status = 429 =>
                  /\ allowed' = allowed
                  /\ IsSuffix(limiter'.requests[c], limiter.requests[c])
                  /\ \A t \in now..(MaxTime + MaxWindow + 1) :
                        is_allowed(limiter', c, t).result
                           = is_allowed(limiter, c, t).result
             /\ \A other \in ClientIps \ {c} :
                  /\ limiter'.requests[other] = limiter.requests[other]
                  /\ allowed'[other] = allowed[other]]_vars

\* a client that was let through, and let through again once the window had
\* passed, is now rejected
C30_Witness ==
    /\ resp.op = "rate_limit"
    /\ resp.status = 429
    /\ Len(allowed[resp.client_ip]) > limiter.max_requests
    /\ Len(limiter.requests[resp.client_ip]) = limiter.max_requests

====
